---- MODULE Spec2Model ----
(***************************************************************************)
(* The POI survey engine of geo/osm_get.py: the cached SQLite connection   *)
(* (_get_conn), the distance engine (_haversine_m, _bounding_box), the     *)
(* classifier (_groups_for_tags), the orchestrator (survey_latlng) and the  *)
(* radius handling of its caller, api_search of app.py.                    *)
(*                                                                         *)
(* Python floats are modelled as binary floating point numbers m * 2^e     *)
(* with a MantBits-bit mantissa, rounded to nearest (ties to even) after   *)
(* every operation, as IEEE-754 does with 53 bits.  The math library       *)
(* (sin, cos, asin, sqrt) is computed in that arithmetic.                  *)
(***************************************************************************)
EXTENDS Integers, Sequences, FiniteSets, TLC

(* ---------------------------------------------------------------------- *)
(* Bounds of the model                                                     *)
(* ---------------------------------------------------------------------- *)

\* Width of a float's mantissa, in bits.
MantBits == 14

\* Largest top_n_per_group a call is made with.
MaxTopN == 2

\* Largest number of tags in a tag map drawn for the classifier.
MaxTags == 2

(* ---------------------------------------------------------------------- *)
(* float: m * 2^e, m = 0 or 2^(MantBits-1) <= |m| < 2^MantBits             *)
(*                                                                         *)
(* The arithmetic is written as functions, f[x, y], of floats.             *)
(* ---------------------------------------------------------------------- *)

Float == [m : Int, e : Int]

Abs(n) == IF n < 0 THEN -n ELSE n

Sign(n) == IF n < 0 THEN -1 ELSE IF n = 0 THEN 0 ELSE 1

BitLen[n \in Nat] == IF n = 0 THEN 0 ELSE 1 + BitLen[n \div 2]

\* Bits to shift a mantissa by within a 32-bit integer.
Wide == 30 - MantBits

FZero == [m |-> 0, e |-> 0]

\* s * q * 2^e, q <= 2^MantBits, as a float.
Pack[s \in Int, q \in Nat, e \in Int] ==
    IF q = 2^MantBits
    THEN [m |-> s * 2^(MantBits - 1), e |-> e + 1]
    ELSE [m |-> s * q, e |-> e]

\* s * (q + r / (2 * half)) * 2^e rounded to s * q' * 2^e, half to even.
RoundEven[s \in Int, q \in Nat, r \in Nat, half \in Nat, e \in Int] ==
    Pack[s, IF r > half \/ (r = half /\ q % 2 = 1) THEN q + 1 ELSE q, e]

\* s * n * 2^e, n of L bits, as the nearest float.
NormLen[s \in Int, n \in Nat, e \in Int, L \in Nat] ==
    IF n = 0 THEN FZero
    ELSE IF L > MantBits
    THEN RoundEven[s, n \div (2^(L - MantBits)), n % (2^(L - MantBits)),
                   2^(L - MantBits - 1), e + (L - MantBits)]
    ELSE [m |-> s * n * 2^(MantBits - L), e |-> e - (MantBits - L)]

\* The float nearest to m * 2^e (round half to even).
Norm[m \in Int, e \in Int] == NormLen[Sign(m), Abs(m), e, BitLen[Abs(m)]]

FromInt[n \in Int] == Norm[n, 0]

FNeg[x \in Float] == [m |-> -x.m, e |-> x.e]

FAbs[x \in Float] == [m |-> Abs(x.m), e |-> x.e]

FMul[x \in Float, y \in Float] == Norm[x.m * y.m, x.e + y.e]

\* hi + lo, where hi.e = lo.e + d and d >= 0: hi is shifted left as far as
\* a word allows, lo right by what is left of d.
AddAligned[hi \in Float, lo \in Float, d \in Nat] ==
    IF d <= Wide THEN Norm[hi.m * (2^d) + lo.m, lo.e]
    ELSE IF d - Wide > MantBits THEN hi
    ELSE Norm[hi.m * (2^Wide) + Sign(lo.m) * (Abs(lo.m) \div (2^(d - Wide))),
              hi.e - Wide]

FAdd[x \in Float, y \in Float] ==
    IF x.m = 0 THEN y
    ELSE IF y.m = 0 THEN x
    ELSE IF x.e >= y.e THEN AddAligned[x, y, x.e - y.e]
    ELSE AddAligned[y, x, y.e - x.e]

\* x ** 2
FSq[x \in Float] == FMul[x, x]

FSub[x \in Float, y \in Float] == FAdd[x, FNeg[y]]

FDiv[x \in Float, y \in Float] ==
    Norm[Sign(x.m) * Sign(y.m) * ((Abs(x.m) * (2^Wide)) \div Abs(y.m)),
         x.e - y.e - Wide]

\* x < y, exactly.
FLt[x \in Float, y \in Float] ==
    IF Sign(x.m) # Sign(y.m) THEN Sign(x.m) < Sign(y.m)
    ELSE IF x.m = 0 THEN FALSE
    ELSE IF x.m > 0 THEN x.e < y.e \/ (x.e = y.e /\ x.m < y.m)
    ELSE y.e < x.e \/ (x.e = y.e /\ x.m < y.m)

FLe[x \in Float, y \in Float] == ~FLt[y, x]

FMin[x \in Float, y \in Float] == IF FLt[y, x] THEN y ELSE x

\* A decimal literal num / den, read as the nearest float.
Dec[num \in Int, den \in Int] == FDiv[FromInt[num], FromInt[den]]

FOne == FromInt[1]

FTwo == FromInt[2]

\* math.pi (355/113 agrees with pi to 8 digits, more than a mantissa holds).
FPi == Dec[355, 113]

FHalfPi == FDiv[FPi, FTwo]

(* ---------------------------------------------------------------------- *)
(* math: sqrt, sin, cos, asin, radians                                     *)
(* ---------------------------------------------------------------------- *)

\* The integer square root of n, found bit by bit from bit b down.
ISqrt[n \in Nat, b \in Nat, acc \in Nat] ==
    IF b = 0 THEN acc
    ELSE LET t == acc + b
         IN  ISqrt[n, b \div 2, IF t * t <= n THEN t ELSE acc]

sqrt[x \in Float] ==
    IF x.m = 0 THEN FZero
    ELSE LET k == IF (x.e - Wide) % 2 = 0 THEN Wide ELSE Wide - 1
         IN  Norm[ISqrt[x.m * (2^k), 2^15, 0], (x.e - k) \div 2]

\* sum + t(i) + ... + t(n), where t(i) = term * f(i), t(i+1) = t(i) * f(i+1),
\* and f(i) = x2 * num(i) / den(i) is given by the series named kind.
Series[kind \in STRING, x2, term, sum \in Float, i, n \in Nat] ==
    IF i > n THEN sum
    ELSE LET num == IF kind = "asin" THEN (2 * i - 1) * (2 * i - 1) ELSE -1
             den == IF kind = "cos" THEN (2 * i - 1) * (2 * i)
                    ELSE (2 * i) * (2 * i + 1)
             t   == FDiv[FMul[FMul[term, x2], FromInt[num]], FromInt[den]]
         IN  Series[kind, x2, t, FAdd[sum, t], i + 1, n]

\* sin and cos on [0, pi/2].
SinQ[x \in Float] == Series["sin", FMul[x, x], x, x, 1, 6]

CosQ[x \in Float] == Series["cos", FMul[x, x], FOne, FOne, 1, 7]

\* a in [0, pi] folded into [0, pi/2]: pi - a past pi/2.
Fold[a \in Float] == IF FLt[FHalfPi, a] THEN FSub[FPi, a] ELSE a

\* r with the sign of s.
WithSign[s \in Int, r \in Float] == IF s < 0 THEN FNeg[r] ELSE r

sin[x \in Float] == WithSign[x.m, SinQ[Fold[FAbs[x]]]]

cos[x \in Float] ==
    WithSign[IF FLt[FHalfPi, FAbs[x]] THEN -1 ELSE 1, CosQ[Fold[FAbs[x]]]]

\* asin on [0, 1]; past 1/2 by asin(x) = pi/2 - 2 asin(sqrt((1 - x) / 2)).
AsinQ[x \in Float] == Series["asin", FMul[x, x], x, x, 1, 10]

asin[x \in Float] ==
    IF FLt[Dec[1, 2], x]
    THEN FSub[FHalfPi, FMul[FTwo, AsinQ[sqrt[FDiv[FSub[FOne, x], FTwo]]]]]
    ELSE AsinQ[x]

radians[x \in Float] == FMul[x, FDiv[FPi, FromInt[180]]]

(* ---------------------------------------------------------------------- *)
(* Distance engine                                                         *)
(* ---------------------------------------------------------------------- *)

\* R, the Earth's radius in metres.
EarthRadiusM == 6371000

\* Metres per degree of latitude that _bounding_box assumes.
MetresPerDegree == 111000

\* Great-circle distance in metres between (lat1, lng1) and (lat2, lng2).
_haversine_m(lat1, lng1, lat2, lng2) ==
    LET R       == FromInt[EarthRadiusM]
        phi1    == radians[lat1]
        phi2    == radians[lat2]
        dphi    == radians[FSub[lat2, lat1]]
        dlambda == radians[FSub[lng2, lng1]]
        a       == FAdd[FSq[sin[FDiv[dphi, FTwo]]],
                        FMul[FMul[cos[phi1], cos[phi2]],
                             FSq[sin[FDiv[dlambda, FTwo]]]]]
        c       == FMul[FTwo, asin[FMin[FOne, sqrt[a]]]]
    IN  FMul[R, c]

\* <<lat_min, lat_max, lng_min, lng_max>>
_bounding_box(lat, lng, radius_m) ==
    LET dlat == FDiv[radius_m, FromInt[MetresPerDegree]]
        dlng == FDiv[radius_m, IF cos[radians[lat]].m # 0
                               THEN FMul[FromInt[MetresPerDegree], cos[radians[lat]]]
                               ELSE Dec[1, 1000000]]
    IN  <<FSub[lat, dlat], FAdd[lat, dlat], FSub[lng, dlng], FAdd[lng, dlng]>>

\* round(x, 1), in tenths of a unit: the nearest multiple of 0.1, half to even.
Round1(x) ==
    LET n == Abs(x.m) * 10
        k == -x.e
        q == IF k <= 0 THEN n * (2^(-k)) ELSE IF k > 30 THEN 0 ELSE n \div (2^k)
        r == IF k <= 0 THEN 0 ELSE IF k > 30 THEN 0 ELSE n % (2^k)
        h == IF k <= 0 \/ k > 30 THEN 1 ELSE 2^(k - 1)
        up == r > h \/ (r = h /\ q % 2 = 1)
    IN  Sign(x.m) * (IF up THEN q + 1 ELSE q)

(* ---------------------------------------------------------------------- *)
(* Classifier                                                              *)
(* ---------------------------------------------------------------------- *)

AMENITY_PARKING ==
    {"parking", "parking_entrance", "parking_space", "bicycle_parking",
     "motorcycle_parking"}

AMENITY_SCHOOL ==
    {"kindergarten", "school", "college", "university", "language_school",
     "music_school", "driving_school"}

AMENITY_CINEMA == {"cinema", "theatre", "arts_centre", "planetarium"}

AMENITY_TRANSIT == {"bus_station", "ferry_terminal", "taxi"}

AMENITY_FUEL == {"fuel"}

LEISURE_SCENIC ==
    {"park", "garden", "playground", "pitch", "stadium", "sports_centre",
     "swimming_pool", "water_park", "nature_reserve", "golf_course", "marina",
     "beach_resort", "recreation_ground"}

TOURISM_SCENIC ==
    {"attraction", "viewpoint", "museum", "gallery", "theme_park", "zoo",
     "aquarium", "artwork", "picnic_site", "information", "camp_site",
     "caravan_site", "alpine_hut", "wilderness_hut", "chalet", "hotel",
     "motel", "guest_house", "hostel", "resort"}

NATURAL_SCENIC ==
    {"peak", "volcano", "spring", "hot_spring", "cave_entrance", "waterfall",
     "cliff", "bay", "beach", "cape", "dune", "wood", "forest"}

HISTORIC_SCENIC ==
    {"castle", "fort", "ruins", "archaeological_site", "monument", "memorial",
     "battlefield", "wayside_cross", "wayside_shrine", "heritage"}

HIGHWAY_TRANSIT == {"bus_stop"}

RAILWAY_TRANSIT ==
    {"station", "halt", "tram_stop", "subway_entrance", "light_rail", "stop",
     "platform"}

PUBLIC_TRANSPORT_TRANSIT ==
    {"stop_position", "platform", "station", "stop_area", "stop_area_group"}

AEROWAY_TRANSIT == {"aerodrome", "terminal", "helipad"}

WATERWAY_SCENIC == {"dam", "waterfall", "lock_gate", "weir"}

MAN_MADE_SCENIC ==
    {"pier", "lighthouse", "tower", "water_tower", "windmill", "watermill"}

AERIALWAY_TRANSIT == {"station"}

\* Python's None, where a string is expected (no tag value drawn equals it).
None == "<None>"

\* dict.get(k): the value of k, None when k is absent.
Get(tags, k) == IF k \in DOMAIN tags THEN tags[k] ELSE None

\* The empty dict {}.
EmptyDict == [k \in {} |-> ""]

\* <<"g">> when cond holds, else <<>>: "if cond: groups.append(g)".
AppendIf(cond, g) == IF cond THEN <<g>> ELSE <<>>

\* _groups_for_tags with the six tests chained by elif: the first group
\* that matches is the only one returned.
FirstGroupOnly(groups) == IF groups = <<>> THEN <<>> ELSE <<groups[1]>>

GroupsElif(tags) ==
    FirstGroupOnly(
        AppendIf(Get(tags, "amenity") \in AMENITY_FUEL, "fuel")
        \o AppendIf(Get(tags, "amenity") \in AMENITY_PARKING, "parking")
        \o AppendIf(Get(tags, "amenity") \in AMENITY_SCHOOL, "school")
        \o AppendIf(Get(tags, "amenity") \in AMENITY_CINEMA, "cinema")
        \o AppendIf(\/ Get(tags, "leisure") \in LEISURE_SCENIC
                    \/ Get(tags, "tourism") \in TOURISM_SCENIC
                    \/ Get(tags, "natural") \in NATURAL_SCENIC
                    \/ Get(tags, "historic") \in HISTORIC_SCENIC
                    \/ Get(tags, "waterway") \in WATERWAY_SCENIC
                    \/ Get(tags, "man_made") \in MAN_MADE_SCENIC, "scenic")
        \o AppendIf(\/ Get(tags, "amenity") \in AMENITY_TRANSIT
                    \/ Get(tags, "highway") \in HIGHWAY_TRANSIT
                    \/ Get(tags, "railway") \in RAILWAY_TRANSIT
                    \/ Get(tags, "public_transport") \in PUBLIC_TRANSPORT_TRANSIT
                    \/ Get(tags, "aeroway") \in AEROWAY_TRANSIT
                    \/ Get(tags, "aerialway") \in AERIALWAY_TRANSIT, "transit"))

\* The groups a tag map falls in, in the order the code appends them.
_groups_for_tags(tags) ==
    LET amenity          == Get(tags, "amenity")
        leisure          == Get(tags, "leisure")
        tourism          == Get(tags, "tourism")
        natural          == Get(tags, "natural")
        historic         == Get(tags, "historic")
        highway          == Get(tags, "highway")
        railway          == Get(tags, "railway")
        public_transport == Get(tags, "public_transport")
        aeroway          == Get(tags, "aeroway")
        waterway         == Get(tags, "waterway")
        man_made         == Get(tags, "man_made")
        aerialway        == Get(tags, "aerialway")
    IN  AppendIf(amenity \in AMENITY_FUEL, "fuel")
        \o AppendIf(amenity \in AMENITY_PARKING, "parking")
        \o AppendIf(amenity \in AMENITY_SCHOOL, "school")
        \o AppendIf(amenity \in AMENITY_CINEMA, "cinema")
        \o AppendIf(\/ leisure \in LEISURE_SCENIC
                    \/ tourism \in TOURISM_SCENIC
                    \/ natural \in NATURAL_SCENIC
                    \/ historic \in HISTORIC_SCENIC
                    \/ waterway \in WATERWAY_SCENIC
                    \/ man_made \in MAN_MADE_SCENIC, "scenic")
        \o AppendIf(\/ amenity \in AMENITY_TRANSIT
                    \/ highway \in HIGHWAY_TRANSIT
                    \/ railway \in RAILWAY_TRANSIT
                    \/ public_transport \in PUBLIC_TRANSPORT_TRANSIT
                    \/ aeroway \in AEROWAY_TRANSIT
                    \/ aerialway \in AERIALWAY_TRANSIT, "transit")

(* ---------------------------------------------------------------------- *)
(* The store: the pois table of each database file                         *)
(* ---------------------------------------------------------------------- *)

\* The text of a tags_json column, by what json.loads makes of it:
\*   "object"  a JSON object of tag keys to strings (obj),
\*   "array"   valid JSON that is no object (a list),
\*   "invalid" text that is not JSON,
\*   "empty"   NULL or the empty string.
JObject(obj) == [kind |-> "object", obj |-> obj]

JArray == [kind |-> "array", obj |-> EmptyDict]

JInvalid == [kind |-> "invalid", obj |-> EmptyDict]

JEmpty == [kind |-> "empty", obj |-> EmptyDict]

Poi(osm_type, osm_id, lat, lng, tags_json) ==
    [id_str |-> <<osm_type, osm_id>>, osm_type |-> osm_type, osm_id |-> osm_id,
     lat |-> lat, lng |-> lng, tags_json |-> tags_json]

\* n * 10^-7 degrees, n < 10^4.
Micro[n \in Nat] == FDiv[Dec[n, 10000], FromInt[1000]]

\* The database app.py surveys: three POIs 100 to 126 m from (0, 0).
AppDb ==
    { Poi("node", 1, Micro[9000], FZero,
          JObject([amenity |-> "fuel", leisure |-> "park",
                   historic |-> "monument", name |-> "North"])),
      Poi("node", 2, FNeg[Micro[9004]], FZero,
          JObject(("amenity" :> "fuel") @@ ("name:en" :> "South"))),
      Poi("way", 3, Micro[8000], Micro[8000],
          JObject([amenity |-> "parking", leisure |-> "garden"])) }

\* A second database: POIs across the antimeridian and the pole from the
\* centers below, and rows whose tags are no JSON object.
WorldDb ==
    { Poi("node", 11, FZero, FromInt[-179],
          JObject([railway |-> "station"])),
      Poi("node", 12, FromInt[89], FromInt[180],
          JObject([natural |-> "peak"])),
      Poi("node", 13, Micro[5000], FromInt[179], JInvalid),
      Poi("node", 14, Micro[1000], FZero, JArray),
      Poi("node", 15, FZero, FromInt[179],
          JObject([highway |-> "bus_stop", name |-> "Stop"])) }

AppPath == "geo/osm_poi.sqlite3"

DefaultPath == "osm_poi.sqlite3"

\* A path in a directory that does not exist: sqlite3.connect raises.
MissingPath == "/nowhere/osm_poi.sqlite3"

Paths == {AppPath, DefaultPath, MissingPath}

\* The files sqlite3.connect can open, with their pois table.
Store == (AppPath :> AppDb) @@ (DefaultPath :> WorldDb)

\* Centers of the surveys: (0, 0), (0, 179) and (89, 0).
Centers ==
    { <<FZero, FZero>>, <<FZero, FromInt[179]>>, <<FromInt[89], FZero>> }

\* Radii of the surveys, in metres: -1, 0, 100.09 and 300 000.
Radii == { FromInt[-1], FZero, Dec[10009, 100], FromInt[300000] }

\* api_search: the radius it falls back to, the top_n_per_group it asks for.
DefaultRadiusM == 500

ApiTopN == 5

\* The radius field of a request: the text of the number x, and a text
\* float() rejects.
NumberText(x) == [isfloat |-> TRUE, value |-> x]

NotANumber == [isfloat |-> FALSE, value |-> FZero]

\* The radius api_search surveys with, for the radius field radius_str.
api_search_radius(radius_str) ==
    IF ~radius_str.isfloat THEN FromInt[DefaultRadiusM]
    ELSE IF FLe[radius_str.value, FZero] THEN FromInt[DefaultRadiusM]
    ELSE radius_str.value

\* The coordinates of the stored POIs.
Points == {<<r.lat, r.lng>> : r \in UNION {Store[p] : p \in DOMAIN Store}}

\* _haversine_m and _bounding_box on the arguments the surveys give them,
\* computed once.
DistanceTable ==
    [c \in Centers, p \in Points |-> _haversine_m(c[1], c[2], p[1], p[2])]

BoxTable ==
    [c \in Centers, r \in Radii \cup {FromInt[DefaultRadiusM]} |->
        _bounding_box(c[1], c[2], r)]

Distance(lat1, lng1, lat2, lng2) == DistanceTable[<<lat1, lng1>>, <<lat2, lng2>>]

Box(lat, lng, radius_m) == BoxTable[<<lat, lng>>, radius_m]

(* ---------------------------------------------------------------------- *)
(* State                                                                   *)
(* ---------------------------------------------------------------------- *)

VARIABLES
    _CONN,        \* the cached connection handle, 0 for None
    _CONN_PATH,   \* the path _CONN was opened on, None at first
    conns,        \* the connection objects alive: handle -> [path, open]
    call,         \* the last call: its operation and arguments
    rows,         \* the rows cur.fetchall() returned in it, in order
    raised,       \* the exception it raised, "none" when it returned
    ret,          \* the handle _get_conn returned in it, 0 when it raised
    result,       \* the dict survey_latlng returned in it
    tags_in,      \* the tag map last given to _groups_for_tags alone
    groups_out    \* what _groups_for_tags returned for it

connVars == <<_CONN, _CONN_PATH, conns>>

callVars == <<call, rows, raised, ret, result>>

tagVars == <<tags_in, groups_out>>

vars == <<_CONN, _CONN_PATH, conns, call, rows, raised, ret, result,
          tags_in, groups_out>>

(* ---------------------------------------------------------------------- *)
(* _get_conn                                                               *)
(* ---------------------------------------------------------------------- *)

\* A handle no live connection object has.
NewHandle(cs) ==
    CHOOSE h \in 1..(Cardinality(DOMAIN cs) + 1) :
        /\ h \notin DOMAIN cs
        /\ \A g \in 1..(h - 1) : g \in DOMAIN cs

\* _CONN.close()
Close(cs, h) == [cs EXCEPT ![h].open = FALSE]

\* The switch without the close: the previous connection stays open.
KeepPrevious(cs, conn) == cs

\* What "if _CONN is not None: _CONN.close()" leaves of the connections.
ClosePrevious(cs, conn) == IF conn # 0 THEN Close(cs, conn) ELSE cs

\* The objects still referenced or still open: a closed connection that
\* _CONN no longer names is gone.
Live(cs, conn) ==
    [h \in {g \in DOMAIN cs : cs[g].open \/ g = conn} |-> cs[h]]

\* _get_conn(db_path) from the state (conn, path, cs): what it raises, what
\* it returns, the state it leaves, and whether it called sqlite3.connect.
_get_conn(db_path, conn, path, cs) ==
    IF conn = 0 \/ path # db_path
    THEN LET closed == ClosePrevious(cs, conn)
         IN  IF db_path \in DOMAIN Store
             THEN LET h == NewHandle(closed)
                  IN  [raised |-> "none", ret |-> h, connected |-> TRUE,
                       conn |-> h, path |-> db_path,
                       conns |-> Live(closed @@ (h :> [path |-> db_path,
                                                       open |-> TRUE]), h)]
             ELSE [raised |-> "OperationalError", ret |-> 0,
                   connected |-> TRUE,
                   conn |-> conn, path |-> path, conns |-> Live(closed, conn)]
    ELSE [raised |-> "none", ret |-> conn, connected |-> FALSE,
          conn |-> conn, path |-> path, conns |-> cs]

(* ---------------------------------------------------------------------- *)
(* survey_latlng                                                           *)
(* ---------------------------------------------------------------------- *)

\* The keys of details, in the order the dict is built.
Groups == <<"fuel", "transit", "school", "parking", "scenic", "cinema">>

GroupSet == {Groups[i] : i \in 1..Len(Groups)}

\* lo <= x <= hi, SQL's BETWEEN.
Between(x, lo, hi) == FLe[lo, x] /\ FLe[x, hi]

\* The rows the SELECT ... WHERE lat BETWEEN ? AND ? AND lng BETWEEN ? AND ?
\* finds in a pois table.
SelectBBox(pois, box) ==
    {r \in pois : Between(r.lat, box[1], box[2]) /\ Between(r.lng, box[3], box[4])}

\* The orders a result set can come back in: SQL leaves it unspecified.
Orders(S) ==
    {q \in [1..Cardinality(S) -> S] : \A i, j \in DOMAIN q : q[i] = q[j] => i = j}

\* The loop without the radius test: every row of the box is kept.
WithinRadiusAlways(dist, radius_m) == TRUE

\* "if dist > radius_m: continue" keeps the row.
WithinRadius(dist, radius_m) == ~FLt[radius_m, dist]

\* json.loads(r["tags_json"]) if r["tags_json"] else {}, {} on an exception:
\* the value, and whether it is a dict.
LoadTags(tags_json) ==
    IF tags_json.kind = "object" THEN [isdict |-> TRUE, d |-> tags_json.obj]
    ELSE IF tags_json.kind = "array" THEN [isdict |-> FALSE, d |-> EmptyDict]
    ELSE [isdict |-> TRUE, d |-> EmptyDict]

\* a or b, for strings and None.
Or(a, b) == IF a # None /\ a # "" THEN a ELSE b

Item(r, dist, tags) ==
    [id |-> r.id_str, osm_type |-> r.osm_type, osm_id |-> r.osm_id,
     lat |-> r.lat, lng |-> r.lng,
     distance_m |-> Round1(dist),   \* in tenths of a metre
     name |-> Or(Get(tags, "name:zh"), Or(Get(tags, "name"), Get(tags, "name:en"))),
     tags |-> tags]

\* for g in groups: details[g].append(item)
RECURSIVE AppendEach(_, _, _, _)
AppendEach(details, groups, i, item) ==
    IF i > Len(groups) THEN details
    ELSE AppendEach([details EXCEPT ![groups[i]] = Append(@, item)],
                    groups, i + 1, item)

\* One turn of the loop, for row r at distance dist whose tags_json loads
\* as tags: the exception it raises, if any, and details after it.
Visit(r, dist, tags, radius_m, details) ==
    IF ~WithinRadius(dist, radius_m)
    THEN [raised |-> "none", details |-> details]
    ELSE IF ~tags.isdict
    THEN [raised |-> "AttributeError", details |-> details]
    ELSE [raised |-> "none",
          details |-> AppendEach(details, _groups_for_tags(tags.d), 1,
                                 Item(r, dist, tags.d))]

\* The loop over the rows from row i on: the exception that ends it, if
\* any, and details.
RECURSIVE Scan(_, _, _, _, _, _)
ScanOn(rs, i, lat, lng, radius_m, visited) ==
    IF visited.raised # "none" THEN visited
    ELSE Scan(rs, i + 1, lat, lng, radius_m, visited.details)

Scan(rs, i, lat, lng, radius_m, details) ==
    IF i > Len(rs) THEN [raised |-> "none", details |-> details]
    ELSE ScanOn(rs, i, lat, lng, radius_m,
                Visit(rs[i], Distance(lat, lng, rs[i].lat, rs[i].lng),
                      LoadTags(rs[i].tags_json), radius_m, details))

\* list.sort(key=...): a stable sort, ascending by key.
RECURSIVE InsertSorted(_, _)
InsertSorted(sorted, item) ==
    IF sorted = <<>> THEN <<item>>
    ELSE IF item.distance_m < sorted[Len(sorted)].distance_m
    THEN Append(InsertSorted(SubSeq(sorted, 1, Len(sorted) - 1), item),
                sorted[Len(sorted)])
    ELSE Append(sorted, item)

\* The lists left in the order the rows came in.
Unsorted(items) == items

RECURSIVE SortByDistance(_)
SortByDistance(items) ==
    IF items = <<>> THEN <<>>
    ELSE InsertSorted(SortByDistance(SubSeq(items, 1, Len(items) - 1)),
                      items[Len(items)])

\* summary = {g: len(details[g]) for g in details}
Summary(details) == [g \in DOMAIN details |-> Len(details[g])]

\* items[:top_n_per_group]
Truncate(items, top_n) ==
    SubSeq(items, 1, IF top_n < Len(items) THEN top_n ELSE Len(items))

\* for g in details: details[g].sort(key=lambda x: x["distance_m"])
SortAll(details) == [g \in DOMAIN details |-> SortByDistance(details[g])]

\* The dict with summary taken after the truncation.
ResultShown(lat, lng, radius_m, top_n_per_group, details) ==
    [location |-> [lat |-> lat, lng |-> lng],
     radius_m |-> radius_m,
     summary  |-> [g \in DOMAIN details |->
                      Len(Truncate(details[g], top_n_per_group))],
     details  |-> [g \in DOMAIN details |->
                      Truncate(details[g], top_n_per_group)]]

\* The dict survey_latlng returns, details being sorted.
Result(lat, lng, radius_m, top_n_per_group, details) ==
    [location |-> [lat |-> lat, lng |-> lng],
     radius_m |-> radius_m,
     summary  |-> Summary(details),
     details  |-> [g \in DOMAIN details |->
                      Truncate(details[g], top_n_per_group)]]

\* What follows the loop.
Finish(scan, lat, lng, radius_m, top_n_per_group) ==
    IF scan.raised # "none"
    THEN [raised |-> scan.raised, result |-> <<>>]
    ELSE [raised |-> "none",
          result |-> Result(lat, lng, radius_m, top_n_per_group,
                            SortAll(scan.details))]

\* The part of survey_latlng after cur.fetchall() returned rs.
SurveyRows(rs, lat, lng, radius_m, top_n_per_group) ==
    Finish(Scan(rs, 1, lat, lng, radius_m, [g \in GroupSet |-> <<>>]),
           lat, lng, radius_m, top_n_per_group)

NoResult == <<>>

NoCall == [op |-> "none"]

SurveyCall(lat, lng, radius_m, db_path, top_n, connected) ==
    [op |-> "survey_latlng", lat |-> lat, lng |-> lng, radius_m |-> radius_m,
     db_path |-> db_path, top_n_per_group |-> top_n, connected |-> connected,
     before |-> [conn |-> _CONN, path |-> _CONN_PATH]]

SameArgs(c1, c2) ==
    /\ c1.op = "survey_latlng" /\ c2.op = "survey_latlng"
    /\ c1.lat = c2.lat /\ c1.lng = c2.lng /\ c1.radius_m = c2.radius_m
    /\ c1.db_path = c2.db_path /\ c1.top_n_per_group = c2.top_n_per_group

(* ---------------------------------------------------------------------- *)
(* Actions                                                                 *)
(* ---------------------------------------------------------------------- *)

Init ==
    /\ _CONN = 0
    /\ _CONN_PATH = None
    /\ conns = <<>>
    /\ call = NoCall
    /\ rows = <<>>
    /\ raised = "none"
    /\ ret = 0
    /\ result = NoResult
    /\ tags_in = EmptyDict
    /\ groups_out = <<>>

\* A call of _get_conn(db_path) on its own.
GetConn(db_path) ==
    LET gc == _get_conn(db_path, _CONN, _CONN_PATH, conns)
    IN  /\ _CONN' = gc.conn
        /\ _CONN_PATH' = gc.path
        /\ conns' = gc.conns
        /\ call' = [op |-> "_get_conn", db_path |-> db_path,
                    connected |-> gc.connected,
                    before |-> [conn |-> _CONN, path |-> _CONN_PATH]]
        /\ rows' = <<>>
        /\ raised' = gc.raised
        /\ ret' = gc.ret
        /\ result' = NoResult
        /\ UNCHANGED tagVars

\* survey_latlng fetched rs and ended as out.
Return(rs, out) ==
    /\ rows' = rs
    /\ raised' = out.raised
    /\ result' = out.result

\* A call of survey_latlng(lat, lng, radius_m, db_path, top_n_per_group).
Survey(lat, lng, radius_m, db_path, top_n_per_group) ==
    LET gc == _get_conn(db_path, _CONN, _CONN_PATH, conns)
        c  == SurveyCall(lat, lng, radius_m, db_path, top_n_per_group,
                         gc.connected)
    IN  /\ _CONN' = gc.conn
        /\ _CONN_PATH' = gc.path
        /\ conns' = gc.conns
        /\ call' = c
        /\ ret' = gc.ret
        /\ UNCHANGED tagVars
        /\ IF gc.raised # "none"
           THEN \* sqlite3.connect raised
                /\ rows' = <<>>
                /\ raised' = gc.raised
                /\ result' = NoResult
           ELSE IF ~gc.conns[gc.ret].open
           THEN \* conn.cursor() on a closed connection
                /\ rows' = <<>>
                /\ raised' = "ProgrammingError"
                /\ result' = NoResult
           ELSE \E rs \in Orders(SelectBBox(Store[gc.conns[gc.ret].path],
                                            Box(lat, lng, radius_m))) :
                    Return(rs, SurveyRows(rs, lat, lng, radius_m,
                                          top_n_per_group))

\* api_search, from the radius field on, the address geocoded to (lat, lng).
ApiSearch(lat, lng, radius_str) ==
    Survey(lat, lng, api_search_radius(radius_str), AppPath, ApiTopN)

Next ==
    \/ \E p \in Paths : GetConn(p)
    \/ \E c \in Centers, r \in {NumberText(x) : x \in Radii} \cup {NotANumber} :
           ApiSearch(c[1], c[2], r)
    \/ \E c \in Centers, r \in Radii, p \in Paths, n \in 0..MaxTopN :
           Survey(c[1], c[2], r, p, n)

Spec == Init /\ [][Next]_vars

(* ---------------------------------------------------------------------- *)
(* _groups_for_tags on its own                                             *)
(* ---------------------------------------------------------------------- *)

\* The tag keys the rules read, and two they do not.
TagKeys ==
    {"amenity", "leisure", "tourism", "natural", "historic", "highway",
     "railway", "public_transport", "aeroway", "waterway", "man_made",
     "aerialway", "name", "shop"}

\* Every value some rule names, and two no rule names.
TagValues ==
    AMENITY_PARKING \cup AMENITY_SCHOOL \cup AMENITY_CINEMA \cup AMENITY_TRANSIT
    \cup AMENITY_FUEL \cup LEISURE_SCENIC \cup TOURISM_SCENIC \cup NATURAL_SCENIC
    \cup HISTORIC_SCENIC \cup HIGHWAY_TRANSIT \cup RAILWAY_TRANSIT
    \cup PUBLIC_TRANSPORT_TRANSIT \cup AEROWAY_TRANSIT \cup WATERWAY_SCENIC
    \cup MAN_MADE_SCENIC \cup AERIALWAY_TRANSIT \cup {"yes", "North"}

\* Tags to build maps of several tags from.
SampleTags ==
    { <<"amenity", "fuel">>, <<"amenity", "bus_station">>,
      <<"amenity", "cinema">>, <<"leisure", "park">>,
      <<"historic", "monument">>, <<"highway", "bus_stop">>,
      <<"railway", "platform">>, <<"waterway", "waterfall">>,
      <<"man_made", "station">>, <<"name", "park">> }

\* The dict of a set of tags with distinct keys.
DictOf(T) ==
    [k \in {t[1] : t \in T} |-> (CHOOSE t \in T : t[1] = k)[2]]

Classify(tags) ==
    /\ tags_in' = tags
    /\ groups_out' = _groups_for_tags(tags)
    /\ UNCHANGED <<connVars, callVars>>

\* _groups_for_tags({k: v})
ClassifyOne(k, v) == Classify(k :> v)

\* _groups_for_tags of a dict of up to MaxTags tags.
ClassifyMany(T) ==
    /\ Cardinality(T) <= MaxTags
    /\ \A t, u \in T : t[1] = u[1] => t = u
    /\ Classify(DictOf(T))

NextTags ==
    \/ \E k \in TagKeys, v \in TagValues : ClassifyOne(k, v)
    \/ \E T \in SUBSET SampleTags : ClassifyMany(T)

SpecTags == Init /\ [][NextTags]_vars

(* ---------------------------------------------------------------------- *)
(* Properties                                                              *)
(* ---------------------------------------------------------------------- *)

\* The last call was a survey_latlng that returned its dict.
Surveyed == call.op = "survey_latlng" /\ raised = "none"

\* The haversine distance from the centre of the last survey to row r.
DistTo(r) == Distance(call.lat, call.lng, r.lat, r.lng)

\* r lies within the radius of the last survey.
InRadius(r) == FLe[DistTo(r), call.radius_m]

\* The tag map of a row: its tags_json when that is a JSON object, else {}.
TagMapOf(r) == IF r.tags_json.kind = "object" THEN r.tags_json.obj ELSE EmptyDict

\* The tags of r classify into category c.
InCategory(r, c) ==
    \E i \in DOMAIN _groups_for_tags(TagMapOf(r)) :
        _groups_for_tags(TagMapOf(r))[i] = c

\* The tags_json of r cannot be parsed into a tag map.
Malformed(r) == r.tags_json.kind \in {"array", "invalid"}

\* The fetched rows (by index) that lie within the radius and classify into c.
Counted(c) ==
    {k \in DOMAIN rows : InRadius(rows[k]) /\ InCategory(rows[k], c)}

\* The stored POI an entry of details reports.
RowOf(e) == CHOOSE r \in Store[call.db_path] : r.id_str = e.id

\* n tenths of a metre are at most x metres.
TenthsLe(n, x) ==
    IF x.e >= 0 THEN n <= 10 * x.m * (2^(x.e))
    ELSE n * (2^(0 - x.e)) <= 10 * x.m

\* C1: after a survey with radius_m > 0, summary[c] is the number of stored
\* POIs within radius_m of the centre whose tags classify into c: the
\* bounding box drops none of them.
C1_SummaryCountsEveryPoiInRadius ==
    (Surveyed /\ FLt[FZero, call.radius_m]) =>
        \A c \in GroupSet :
            result.summary[c] =
                Cardinality({r \in Store[call.db_path] :
                                InRadius(r) /\ InCategory(r, c)})

\* C2 as stated: every entry of details reports a distance_m <= radius_m.
C2_ReportedDistanceWithinRadius ==
    Surveyed =>
        \A c \in GroupSet : \A i \in DOMAIN result.details[c] :
            TenthsLe(result.details[c][i].distance_m, call.radius_m)

\* C2 as amended: every entry of details is a stored POI whose haversine
\* distance is <= radius_m, and its distance_m is that distance rounded to
\* one decimal, hence <= radius_m rounded to one decimal.
C2_TrueDistanceWithinRadius ==
    Surveyed =>
        \A c \in GroupSet : \A i \in DOMAIN result.details[c] :
            \E r \in Store[call.db_path] :
                /\ r.id_str = result.details[c][i].id
                /\ InRadius(r)
                /\ result.details[c][i].distance_m = Round1(DistTo(r))
                /\ result.details[c][i].distance_m <= Round1(call.radius_m)

\* A survey returned an entry whose distance_m is above radius_m.
C2_RoundedAboveRadius ==
    /\ Surveyed
    /\ \E c \in GroupSet : \E i \in DOMAIN result.details[c] :
           ~TenthsLe(result.details[c][i].distance_m, call.radius_m)

\* C3: a survey with radius_m <= 0 raises InvalidRadius and returns nothing.
C3_InvalidRadiusRejected ==
    (call.op = "survey_latlng" /\ FLe[call.radius_m, FZero]) =>
        (raised = "InvalidRadius" /\ result = NoResult)

\* C4: summary[c] >= len(details[c]), with equality when summary[c] <=
\* top_n_per_group, and summary[c] is the number of fetched rows within the
\* radius that classify into c, whatever top_n_per_group is.
C4_SummaryIsFullCount ==
    Surveyed =>
        \A c \in GroupSet :
            /\ result.summary[c] >= Len(result.details[c])
            /\ result.summary[c] <= call.top_n_per_group
                   => Len(result.details[c]) = result.summary[c]
            /\ result.summary[c] = Cardinality(Counted(c))

\* A survey whose details were truncated, and one whose were not.
C4_Truncated ==
    /\ Surveyed
    /\ \E c \in GroupSet : result.summary[c] > Len(result.details[c])
    /\ \E c \in GroupSet : result.summary[c] > 0
                           /\ result.summary[c] = Len(result.details[c])

\* C5: a survey that repeats the arguments of the survey before it returns
\* the same dict, whatever order the rows came back in.
C5_RepeatedSurveyIdentical ==
    [][(SameArgs(call, call') /\ raised = "none" /\ raised' = "none")
           => result' = result]_vars

\* C7: a fetched row within the radius with unparsable tags does not abort
\* the survey: it returns, and counts the other rows as if that row were
\* absent.
C7_MalformedTagsNeverAbort ==
    (/\ call.op = "survey_latlng"
     /\ \E k \in DOMAIN rows : Malformed(rows[k]) /\ InRadius(rows[k])) =>
        /\ raised = "none"
        /\ \A c \in GroupSet : result.summary[c] = Cardinality(Counted(c))

\* C8 as stated: the entries of details[c] are in non-decreasing order of
\* haversine distance, and no POI of category c within the radius that is
\* left out is nearer than one that is kept.
C8_NearestByTrueDistance ==
    Surveyed =>
        \A c \in GroupSet :
            /\ \A i, j \in DOMAIN result.details[c] :
                   i < j => FLe[DistTo(RowOf(result.details[c][i])),
                                DistTo(RowOf(result.details[c][j]))]
            /\ \A r \in Store[call.db_path] :
                   (/\ InRadius(r) /\ InCategory(r, c)
                    /\ \A i \in DOMAIN result.details[c] :
                           result.details[c][i].id # r.id_str)
                   => \A i \in DOMAIN result.details[c] :
                          FLe[DistTo(RowOf(result.details[c][i])), DistTo(r)]

\* C8 as amended: details[c] holds min(top_n_per_group, summary[c]) of the
\* rows counted in summary[c], in non-decreasing order of the reported
\* distance_m, rows of equal distance_m in the order they were fetched, and
\* no counted row that is left out has a smaller distance_m than a kept one.
C8_NearestByReportedDistance ==
    Surveyed =>
        \A c \in GroupSet :
            /\ Len(result.details[c]) =
                   IF call.top_n_per_group < Cardinality(Counted(c))
                   THEN call.top_n_per_group ELSE Cardinality(Counted(c))
            /\ \E f \in [DOMAIN result.details[c] -> Counted(c)] :
                   \A i, j \in DOMAIN f :
                       /\ rows[f[i]].id_str = result.details[c][i].id
                       /\ result.details[c][i].distance_m
                              = Round1(DistTo(rows[f[i]]))
                       /\ i < j =>
                              \/ result.details[c][i].distance_m
                                     < result.details[c][j].distance_m
                              \/ /\ result.details[c][i].distance_m
                                        = result.details[c][j].distance_m
                                 /\ f[i] < f[j]
                       /\ \A k \in Counted(c) :
                              (\A h \in DOMAIN f : f[h] # k) =>
                                  result.details[c][i].distance_m
                                      <= Round1(DistTo(rows[k]))

\* A survey kept a POI and left out a nearer one of the same distance_m.
C8_NearerLeftOut ==
    /\ Surveyed
    /\ \E c \in GroupSet : \E i \in DOMAIN result.details[c] :
           \E k \in Counted(c) :
               /\ \A h \in DOMAIN result.details[c] :
                      result.details[c][h].id # rows[k].id_str
               /\ FLt[DistTo(rows[k]), DistTo(RowOf(result.details[c][i]))]
               /\ Round1(DistTo(rows[k])) = result.details[c][i].distance_m

\* The connections that are open.
OpenConns == {h \in DOMAIN conns : conns[h].open}

\* C9: at most one connection is open; a call with the cached path returns
\* the cached handle and connects to nothing; a call with another path
\* leaves the previous handle closed, and the handle it caches is the one
\* it opened on that path.
C9_AtMostOneOpenConnection ==
    /\ Cardinality(OpenConns) <= 1
    /\ (call.op # "none" /\ call.before.conn # 0) =>
           IF call.db_path = call.before.path
           THEN /\ ret = call.before.conn
                /\ ~call.connected
                /\ _CONN = call.before.conn
           ELSE /\ call.before.conn \notin OpenConns
                /\ _CONN # call.before.conn =>
                       /\ OpenConns = {_CONN}
                       /\ conns[_CONN].path = call.db_path
                       /\ _CONN_PATH = call.db_path

\* A call switched from an open connection to another path and opened it.
C9_Switched ==
    /\ call.op # "none"
    /\ call.before.conn # 0
    /\ call.db_path # call.before.path
    /\ raised = "none"
    /\ _CONN # call.before.conn
    /\ OpenConns = {_CONN}

\* C10: the cached connection is open and was opened on the cached path,
\* and a call that got a connection got an open one, opened on its path.
C10_CachedConnectionOpen ==
    /\ _CONN # 0 =>
           /\ _CONN \in OpenConns
           /\ conns[_CONN].path = _CONN_PATH
    /\ (call.op # "none" /\ ret # 0) =>
           /\ ret \in OpenConns
           /\ conns[ret].path = call.db_path

\* The classification taxonomy: for each category, the tag keys with the
\* values that put a POI in it.
Taxonomy ==
    [fuel |-> {<<"amenity", {"fuel"}>>},
     parking |-> {<<"amenity", {"parking", "parking_entrance", "parking_space",
                                "bicycle_parking", "motorcycle_parking"}>>},
     school |-> {<<"amenity", {"kindergarten", "school", "college",
                               "university", "language_school", "music_school",
                               "driving_school"}>>},
     cinema |-> {<<"amenity", {"cinema", "theatre", "arts_centre",
                               "planetarium"}>>},
     scenic |-> {<<"leisure", {"park", "garden", "playground", "pitch",
                               "stadium", "sports_centre", "swimming_pool",
                               "water_park", "nature_reserve", "golf_course",
                               "marina", "beach_resort", "recreation_ground"}>>,
                 <<"tourism", {"attraction", "viewpoint", "museum", "gallery",
                               "theme_park", "zoo", "aquarium", "artwork",
                               "picnic_site", "information", "camp_site",
                               "caravan_site", "alpine_hut", "wilderness_hut",
                               "chalet", "hotel", "motel", "guest_house",
                               "hostel", "resort"}>>,
                 <<"natural", {"peak", "volcano", "spring", "hot_spring",
                               "cave_entrance", "waterfall", "cliff", "bay",
                               "beach", "cape", "dune", "wood", "forest"}>>,
                 <<"historic", {"castle", "fort", "ruins",
                                "archaeological_site", "monument", "memorial",
                                "battlefield", "wayside_cross",
                                "wayside_shrine", "heritage"}>>,
                 <<"waterway", {"dam", "waterfall", "lock_gate", "weir"}>>,
                 <<"man_made", {"pier", "lighthouse", "tower", "water_tower",
                                "windmill", "watermill"}>>},
     transit |-> {<<"amenity", {"bus_station", "ferry_terminal", "taxi"}>>,
                  <<"highway", {"bus_stop"}>>,
                  <<"railway", {"station", "halt", "tram_stop",
                                "subway_entrance", "light_rail", "stop",
                                "platform"}>>,
                  <<"public_transport", {"stop_position", "platform",
                                         "station", "stop_area",
                                         "stop_area_group"}>>,
                  <<"aeroway", {"aerodrome", "terminal", "helipad"}>>,
                  <<"aerialway", {"station"}>>}]

\* Some rule of category c has the value of its key in tags in its set.
Matches(tags, c) ==
    \E rule \in Taxonomy[c] :
        rule[1] \in DOMAIN tags /\ tags[rule[1]] \in rule[2]

\* C6: _groups_for_tags returns exactly the categories the taxonomy
\* matches the tag map to, each of them once.
C6_GroupsMatchTaxonomy ==
    /\ \A c \in GroupSet :
           (\E i \in DOMAIN groups_out : groups_out[i] = c)
               <=> Matches(tags_in, c)
    /\ \A i, j \in DOMAIN groups_out : groups_out[i] = groups_out[j] => i = j

\* A tag map that two rules of scenic match was classified.
C6_TwoRulesOneCategory ==
    /\ "leisure" \in DOMAIN tags_in /\ tags_in["leisure"] = "park"
    /\ "historic" \in DOMAIN tags_in /\ tags_in["historic"] = "monument"
    /\ groups_out = <<"scenic">>

====
